---- MODULE Spec2Model ----
(***************************************************************************)
(* scoutnet2airkey: reconciliation of the Scoutnet key-holder roster with  *)
(* the persons, phones and authorizations of an EVVA Airkey account.       *)
(*                                                                         *)
(* The Airkey service is a collaborator outside the repository.  Its       *)
(* tables are the variables persons, phones and auths; the effect of each  *)
(* of its calls is the Api* operator of the same name.  A listing returns  *)
(* its records by ascending id, and a request changes the records it names *)
(* that exist.                                                             *)
(***************************************************************************)
EXTENDS Integers, Sequences, FiniteSets, TLC

\* ------------------------------------------------------------------ bounds
MaxId == 2          \* Scoutnet member ids are 1..MaxId
MaxPersons == 2     \* Airkey persons present before the run: ids 1..MaxPersons
MaxPhones == 1      \* Airkey phones present before the run: ids 1..MaxPhones
MaxAuths == 2       \* Airkey authorizations present before the run
MaxCalls == 1       \* calls made on one engine (specification Spec)
MaxCodePhones == 2  \* Airkey phones before the registration commands run
MaxLists == 2       \* Scoutnet custom lists (specification StartSpec)

\* ------------------------------------------------------------ Python values
None == "None"      \* None in a string-valued attribute
NoId == 0           \* None in an id-valued attribute (falsy, like None)

Truthy(s) == s # None /\ s # ""

EmptyMap == [x \in {} |-> x]
Put(f, k, v) == [x \in (DOMAIN f) \cup {k} |-> IF x = k THEN v ELSE f[x]]
Has(f, k) == k \in DOMAIN f
Without(f, ks) == [x \in (DOMAIN f) \ ks |-> f[x]]

Min(S) == CHOOSE x \in S : \A y \in S : x <= y
Max(S) == CHOOSE x \in S : \A y \in S : x >= y

\* int(): the decimal strings, with leading zeros accepted as Python does;
\* anything else raises ValueError.
ParseRange == 0..(MaxId + 1)
IsNumeric(s) == \E i \in ParseRange : s = ToString(i) \/ s = "0" \o ToString(i)
int(s) == CHOOSE i \in ParseRange : s = ToString(i) \/ s = "0" \o ToString(i)
\* str() of an int
str(i) == ToString(i)

\* ------------------------------------------------------------------- state
VARIABLES
    scoutnet_users,  \* the roster: member id -> [first_name, last_name, contact_mobile_phone]
    dry_run,
    persons,         \* Airkey: person id -> person
    phones,          \* Airkey: medium id -> phone
    auths,           \* Airkey: authorization id -> authorization
    ids,             \* Airkey: the last id handed out, per table
    cache,           \* the engine's eight dictionaries
    error,           \* the exception that ended the process, or None
    calls,           \* the mutation requests sent to Airkey, in order
    sp,              \* the sets computed by the last sync_persons
    sph,             \* the sets computed by the last sync_phones
    sa,              \* the requests computed by the last sync_auth
    touched,         \* Airkey person ids named in the sets computed so far
    out,             \* the counts the registration commands report, in order
    snapshot,        \* the Airkey tables as they were before the first call
    pc,              \* position in main() / in the scripted run
    args,            \* command line and configuration
    run,             \* number of the process (1 or 2)
    ncalls           \* engine methods called so far

vars == <<scoutnet_users, dry_run, persons, phones, auths, ids, cache, error,
          calls, sp, sph, sa, touched, out, snapshot, pc, args, run, ncalls>>

\* ScoutnetAirkey.__init__: the empty dictionaries
EmptyCache ==
    [ person_id_to_scoutnet_id |-> EmptyMap,
      persons_by_person_id     |-> EmptyMap,
      persons_by_scoutnet_id   |-> EmptyMap,
      phones_by_medium_id      |-> EmptyMap,
      phones_by_scoutnet_id    |-> EmptyMap,
      phone_to_person_id       |-> EmptyMap,
      auth_by_auth_id          |-> EmptyMap,
      auth_by_scoutnet_id      |-> EmptyMap ]

\* -------------------------------------------------------------- cache loads
\* The loop of _fetch_persons over the fetched list, in list order.
\* Result: [cache, error].
RECURSIVE index_persons(_, _, _, _)
index_persons(c, users, rp, todo) ==
    IF todo = {} THEN [cache |-> c, error |-> None]
    ELSE
      LET id == Min(todo)
          p  == rp[id]
          c1 == [c EXCEPT !.persons_by_person_id = Put(@, id, p)]
      IN  IF ~Truthy(p.secondary_identification)
          THEN index_persons(c1, users, rp, todo \ {id})
          ELSE IF ~IsNumeric(p.secondary_identification)
          THEN [cache |-> c1, error |-> "ValueError"]
          ELSE
            LET scoutnet_id == int(p.secondary_identification)
                c2 == [c1 EXCEPT
                         !.persons_by_scoutnet_id = Put(@, scoutnet_id, p),
                         !.person_id_to_scoutnet_id = Put(@, id, scoutnet_id)]
                c3 == IF scoutnet_id \in DOMAIN users
                      THEN [c2 EXCEPT !.phone_to_person_id =
                              Put(@, users[scoutnet_id].contact_mobile_phone, id)]
                      ELSE c2
            IN  index_persons(c3, users, rp, todo \ {id})

\* a load that keeps what the caches hold once they hold something
fetch_persons_once(c, users, rp) ==
    IF DOMAIN c.persons_by_person_id # {} THEN [cache |-> c, error |-> None]
    ELSE index_persons(c, users, rp, DOMAIN rp)

\* _fetch_persons: every listed person, over what the caches already hold
fetch_persons(c, users, rp) == index_persons(c, users, rp, DOMAIN rp)

\* The loop of _fetch_medium over the fetched phones.
RECURSIVE index_medium(_, _, _)
index_medium(c, rph, todo) ==
    IF todo = {} THEN [cache |-> c, error |-> None]
    ELSE
      LET id == Min(todo)
          m  == rph[id]
          c1 == [c EXCEPT !.phones_by_medium_id = Put(@, id, m)]
      IN  IF m.person_id = NoId
          THEN index_medium(c1, rph, todo \ {id})
          ELSE IF ~Has(c1.persons_by_person_id, m.person_id)
          THEN [cache |-> c1, error |-> "KeyError"]
          ELSE
            LET p == c1.persons_by_person_id[m.person_id]
            IN  IF ~Truthy(p.secondary_identification)
                THEN index_medium(c1, rph, todo \ {id})
                ELSE IF ~IsNumeric(p.secondary_identification)
                THEN [cache |-> c1, error |-> "ValueError"]
                ELSE index_medium(
                       [c1 EXCEPT !.phones_by_scoutnet_id =
                          Put(@, int(p.secondary_identification), m)],
                       rph, todo \ {id})

fetch_medium(c, users, rp, rph) ==
    LET r == fetch_persons(c, users, rp)
    IN  IF r.error # None THEN r ELSE index_medium(r.cache, rph, DOMAIN rph)

\* The loop of _fetch_auth over the fetched authorizations.  The list kept
\* per scoutnet id is held as the list of its authorization ids, appended to
\* at every load.
RECURSIVE index_auth(_, _, _)
index_auth(c, ra, todo) ==
    IF todo = {} THEN [cache |-> c, error |-> None]
    ELSE
      LET id == Min(todo)
          a  == ra[id]
      IN  IF a.current_state = "DELETED"
          THEN index_auth(c, ra, todo \ {id})
          ELSE
            LET c1 == [c EXCEPT !.auth_by_auth_id = Put(@, id, a)]
            IN  IF ~Has(c1.persons_by_person_id, a.person_id)
                THEN index_auth(c1, ra, todo \ {id})      \* KeyError, caught
                ELSE
                  LET person == c1.persons_by_person_id[a.person_id]
                  IN  IF ~Truthy(person.secondary_identification)
                      THEN index_auth(c1, ra, todo \ {id})
                      ELSE IF ~IsNumeric(person.secondary_identification)
                      THEN [cache |-> c1, error |-> "ValueError"]
                      ELSE
                        LET scoutnet_id == int(person.secondary_identification)
                            old == IF Has(c1.auth_by_scoutnet_id, scoutnet_id)
                                   THEN c1.auth_by_scoutnet_id[scoutnet_id]
                                   ELSE << >>
                        IN  index_auth(
                              [c1 EXCEPT !.auth_by_scoutnet_id =
                                 Put(@, scoutnet_id, Append(old, id))],
                              ra, todo \ {id})

fetch_auth(c, users, rp, ra) ==
    LET r == fetch_persons(c, users, rp)
    IN  IF r.error # None THEN r ELSE index_auth(r.cache, ra, DOMAIN ra)

\* ------------------------------------------------------- the Airkey service
\* Each operator gives the tables after one call.

\* PersonsApi.create_persons: one new person per request, ids in request order
RECURSIVE ApiCreatePersons(_, _, _, _)
ApiCreatePersons(rp, last, users, todo) ==
    IF todo = {} THEN [persons |-> rp, last |-> last]
    ELSE LET i == Min(todo)
             p == [ id |-> last + 1,
                    first_name |-> users[i].first_name,
                    last_name |-> users[i].last_name,
                    secondary_identification |-> str(i) ]
         IN  ApiCreatePersons(Put(rp, last + 1, p), last + 1, users, todo \ {i})

\* PersonsApi.update_persons: objs is person id -> the person as sent
ApiUpdatePersons(rp, objs) ==
    [id \in DOMAIN rp |-> IF id \in DOMAIN objs THEN objs[id] ELSE rp[id]]

\* PersonsApi.delete_persons
ApiDeletePersons(rp, gone) == Without(rp, gone)

\* a phone whose owner was deleted has no owner any more
ApiReleasePhones(rph, gone) ==
    [id \in DOMAIN rph |->
        IF rph[id].person_id \in gone THEN [rph[id] EXCEPT !.person_id = NoId]
        ELSE rph[id]]

\* MediaApi.create_phones: numbers is a sequence of phone numbers; the new
\* phones have no owner, no device and no pairing code.
RECURSIVE ApiCreatePhones(_, _, _, _)
ApiCreatePhones(rph, last, numbers, k) ==
    IF k > Len(numbers) THEN [phones |-> rph, last |-> last]
    ELSE LET m == [ id |-> last + 1,
                    person_id |-> NoId,
                    phone_number |-> numbers[k],
                    medium_identifier |-> None,
                    pairing_code_valid_until |-> None ]
         IN  ApiCreatePhones(Put(rph, last + 1, m), last + 1, numbers, k + 1)

\* MediaApi.update_phones
ApiUpdatePhones(rph, objs) ==
    [id \in DOMAIN rph |->
        IF id \in DOMAIN objs
        THEN [rph[id] EXCEPT !.phone_number = objs[id].phone_number]
        ELSE rph[id]]

\* MediaApi.assign_owner_to_medium: owner is medium id -> person id
ApiAssignOwner(rph, owner) ==
    [id \in DOMAIN rph |->
        IF id \in DOMAIN owner THEN [rph[id] EXCEPT !.person_id = owner[id]]
        ELSE rph[id]]

\* MediaApi.delete_phones
ApiDeletePhones(rph, gone) == Without(rph, gone)

\* MediaApi.generate_pairing_code_for_phone
ApiGeneratePairingCode(rph, id) ==
    IF id \in DOMAIN rph
    THEN [rph EXCEPT ![id].pairing_code_valid_until = "future"]
    ELSE rph

\* AuthorizationsApi.get_authorizations(person_id=...)
ApiAuthorizationsOf(ra, person_id) ==
    {id \in DOMAIN ra : ra[id].person_id = person_id}

\* AuthorizationsApi.delete_authorization: AuthorizationDelete(deletion_requested=True)
ApiDeleteAuthorization(ra, req) ==
    [id \in DOMAIN ra |->
        IF id \in req THEN [ra[id] EXCEPT !.deletion_requested = TRUE] ELSE ra[id]]

\* AuthorizationsApi.create_or_update_authorizations_with_advanced_options
ApiCreateAuthorization(ra, last, rph, medium_id, area_id) ==
    IF medium_id \notin DOMAIN rph THEN ra
    ELSE Put(ra, last + 1,
             [ id |-> last + 1,
               person_id |-> rph[medium_id].person_id,
               medium_id |-> medium_id,
               area_id |-> area_id,
               current_state |-> "ACTIVE",
               deletion_requested |-> FALSE ])

\* ---------------------------------------------------------------- the engine
\* The engine and the service threaded through the stages of one call,
\* with the sets the call computes (plan).
World == [ persons |-> persons, phones |-> phones, auths |-> auths, ids |-> ids,
           cache |-> cache, error |-> error, calls |-> calls, touched |-> touched,
           plan |-> [done |-> FALSE] ]

\* a mutation request: the method that sent it, the Airkey call, the records named
Call(by, op, named) == [by |-> by, op |-> op, ids |-> named]

Fail(s, e) == [s EXCEPT !.error = e]

Loaded(s, r) == [s EXCEPT !.cache = r.cache, !.error = r.error]

\* self._fetch_persons(), self._fetch_medium(), self._fetch_auth() in a method
load_persons(s, users) ==
    IF s.error # None THEN s ELSE Loaded(s, fetch_persons(s.cache, users, s.persons))

load_medium(s, users) ==
    IF s.error # None THEN s
    ELSE Loaded(s, fetch_medium(s.cache, users, s.persons, s.phones))

load_auth(s, users) ==
    IF s.error # None THEN s
    ELSE Loaded(s, fetch_auth(s.cache, users, s.persons, s.auths))

\* the three id sets of a pass
to_create(scoutnet_ids, airkey_ids) == scoutnet_ids \ airkey_ids
\* a pass that takes every correlated remote id for removed
to_delete_every(scoutnet_ids, airkey_ids) == airkey_ids

to_delete(scoutnet_ids, airkey_ids) == airkey_ids \ scoutnet_ids
existing(scoutnet_ids, airkey_ids) == scoutnet_ids \cap airkey_ids

\* ------------------------------------------------------------- sync_persons
persons_begin(s, flags) ==
    [s EXCEPT !.plan = [ flags |-> flags,
                         airkey_ids |-> IF s.error = None
                                        THEN DOMAIN s.cache.persons_by_scoutnet_id
                                        ELSE {},
                         create |-> {}, update |-> {}, deauthorize |-> {},
                         deauthorize_sent |-> {}, delete |-> {}, done |-> FALSE ]]

\* a comparison that looks at the first name only
person_differs_first(u, p) == u.first_name # p.first_name

\* the comparison that triggers a person update
person_differs(u, p) ==
    u.first_name # p.first_name \/ u.last_name # p.last_name

renamed(p, u) == [p EXCEPT !.first_name = u.first_name, !.last_name = u.last_name]

persons_update_req(c, users, airkey_ids) ==
    {i \in existing(DOMAIN users, airkey_ids) :
        person_differs(users[i], c.persons_by_scoutnet_id[i])}

\* req_update: person id -> the person as sent
persons_update_objs(c, users, req) ==
    [id \in {c.persons_by_scoutnet_id[i].id : i \in req} |->
        LET i == CHOOSE j \in req : c.persons_by_scoutnet_id[j].id = id
        IN  renamed(c.persons_by_scoutnet_id[i], users[i])]

persons_updated(s, users, dry, req, objs) ==
    [s EXCEPT
       !.cache.persons_by_scoutnet_id =
           [i \in DOMAIN @ |-> IF i \in req THEN renamed(@[i], users[i]) ELSE @[i]],
       !.cache.persons_by_person_id =
           [id \in DOMAIN @ |-> IF id \in DOMAIN objs THEN objs[id] ELSE @[id]],
       !.touched.updated = @ \cup DOMAIN objs,
       !.plan.update = req,
       !.persons = IF req = {} \/ dry THEN @ ELSE ApiUpdatePersons(@, objs),
       !.calls = IF req = {} \/ dry THEN @
                 ELSE Append(@, Call("sync_persons", "update_persons", DOMAIN objs))]

persons_update_with(s, users, dry, req) ==
    persons_updated(s, users, dry, req, persons_update_objs(s.cache, users, req))

\* "Update existing users"
persons_update(s, users, dry, update_persons) ==
    IF s.error # None \/ ~update_persons THEN s
    ELSE persons_update_with(s, users, dry,
                             persons_update_req(s.cache, users, s.plan.airkey_ids))

persons_created(s, users, dry, req, r) ==
    [s EXCEPT
       !.plan.create = req,
       !.persons = IF req = {} \/ dry THEN @ ELSE r.persons,
       !.ids.person = IF req = {} \/ dry THEN @ ELSE r.last,
       !.calls = IF req = {} \/ dry THEN @
                 ELSE Append(@, Call("sync_persons", "create_persons", req))]

persons_create_with(s, users, dry, req) ==
    persons_created(s, users, dry, req,
                    ApiCreatePersons(s.persons, s.ids.person, users, req))

\* "Create new users"
persons_create(s, users, dry, create_persons) ==
    IF s.error # None \/ ~create_persons THEN s
    ELSE persons_create_with(s, users, dry,
                             to_create(DOMAIN users, s.plan.airkey_ids))

\* the removed users with an authorization whose deletion is not yet requested
persons_deauthorize_req(s, deleted_ids) ==
    {i \in deleted_ids :
        \E a \in ApiAuthorizationsOf(s.auths, s.cache.persons_by_scoutnet_id[i].id) :
            ~s.auths[a].deletion_requested}

\* req_deauthorize: every authorization of those users
persons_deauthorize_list(s, req) ==
    UNION {ApiAuthorizationsOf(s.auths, s.cache.persons_by_scoutnet_id[i].id) : i \in req}

persons_deauthorized(s, dry, req, req_deauthorize) ==
    [s EXCEPT
       !.touched.deauthorized = @ \cup {s.cache.persons_by_scoutnet_id[i].id : i \in req},
       !.plan.deauthorize = req,
       !.plan.deauthorize_sent = req_deauthorize,
       !.auths = IF req_deauthorize = {} \/ dry THEN @
                 ELSE ApiDeleteAuthorization(@, req_deauthorize),
       !.calls = IF req_deauthorize = {} \/ dry THEN @
                 ELSE Append(@, Call("sync_persons", "delete_authorization",
                                     req_deauthorize))]

persons_deauthorize_with(s, dry, req) ==
    persons_deauthorized(s, dry, req, persons_deauthorize_list(s, req))

\* "Deauthorize removed users"
persons_deauthorize(s, users, dry, deauthorize_persons) ==
    IF s.error # None \/ ~deauthorize_persons THEN s
    ELSE persons_deauthorize_with(s, dry,
            persons_deauthorize_req(s, to_delete(DOMAIN users, s.plan.airkey_ids)))

persons_deleted(s, dry, req, req_delete) ==
    [s EXCEPT
       !.touched.deleted = @ \cup req_delete,
       !.plan.delete = req,
       !.persons = IF req_delete = {} \/ dry THEN @ ELSE ApiDeletePersons(@, req_delete),
       !.phones = IF req_delete = {} \/ dry THEN @ ELSE ApiReleasePhones(@, req_delete),
       !.calls = IF req_delete = {} \/ dry THEN @
                 ELSE Append(@, Call("sync_persons", "delete_persons", req_delete))]

\* a delete stage that also names the persons it cannot correlate
persons_delete_unmatched(s, dry, req) ==
    persons_deleted(s, dry, req,
                    {s.cache.persons_by_scoutnet_id[i].id : i \in req}
                    \cup {id \in DOMAIN s.cache.persons_by_person_id :
                             ~Has(s.cache.person_id_to_scoutnet_id, id)})

persons_delete_with(s, dry, req) ==
    persons_deleted(s, dry, req, {s.cache.persons_by_scoutnet_id[i].id : i \in req})

\* "Delete removed users"
persons_delete(s, users, dry, delete_persons) ==
    IF s.error # None \/ ~delete_persons THEN s
    ELSE persons_delete_with(s, dry, to_delete(DOMAIN users, s.plan.airkey_ids))

finish(s) == [s EXCEPT !.plan.done = s.error = None]

\* sync_persons: the world after the call, with the sets it computed
sync_persons_run(s0, users, dry, create_persons, update_persons, delete_persons, deauthorize_persons) ==
    finish(load_persons(
      persons_delete(
        persons_deauthorize(
          persons_create(
            persons_update(
              persons_begin(load_persons(s0, users),
                            <<create_persons, update_persons,
                              delete_persons, deauthorize_persons>>),
              users, dry, update_persons),
            users, dry, create_persons),
          users, dry, deauthorize_persons),
        users, dry, delete_persons),
      users))

\* --------------------------------------------------- send_registration_code
\* whether scoutnet_users.get(person_id_to_scoutnet_id.get(phone.person_id))
\* finds a member
has_scout(c, users, phone) ==
    /\ Has(c.person_id_to_scoutnet_id, phone.person_id)
    /\ c.person_id_to_scoutnet_id[phone.person_id] \in DOMAIN users

\* generate_pairing_code_for_phone and send_registration_code_to_phone
code_sent(s, id) ==
    [s EXCEPT
       !.phones = ApiGeneratePairingCode(@, id),
       !.calls = @ \o << Call("send_registration_code",
                              "generate_pairing_code_for_phone", {id}),
                         Call("send_registration_code",
                              "send_registration_code_to_phone", {id}) >>]

\* a send that does not look at the pairing code already pending
send_code_again(s, users, dry, phone) ==
    IF phone.medium_identifier # None
    THEN [s |-> s, sent |-> FALSE]
    ELSE IF ~has_scout(s.cache, users, phone)
    THEN [s |-> Fail(s, "AttributeError"), sent |-> FALSE]
    ELSE IF dry
    THEN [s |-> s, sent |-> FALSE]
    ELSE [s |-> code_sent(s, phone.id), sent |-> TRUE]

send_code_to(s, users, dry, phone) ==
    IF phone.medium_identifier # None
    THEN [s |-> s, sent |-> FALSE]                         \* "Already registered"
    ELSE IF ~has_scout(s.cache, users, phone)
    THEN [s |-> Fail(s, "AttributeError"), sent |-> FALSE]   \* scout.display_name
    ELSE IF phone.pairing_code_valid_until # None
    THEN [s |-> s, sent |-> FALSE]                 \* "Pending registration exists"
    ELSE IF dry
    THEN [s |-> s, sent |-> FALSE]
    ELSE [s |-> code_sent(s, phone.id), sent |-> TRUE]

\* send_registration_code: [s, sent]
send_registration_code(s, users, dry, medium_id) ==
    IF ~Has(s.cache.phones_by_medium_id, medium_id)
    THEN [s |-> Fail(s, "KeyError"), sent |-> FALSE]
    ELSE send_code_to(s, users, dry, s.cache.phones_by_medium_id[medium_id])

\* --------------------------------------------------------------- sync_phones
phones_begin(s, flags) ==
    [s EXCEPT !.plan = [ flags |-> flags,
                         airkey_ids |-> IF s.error = None
                                        THEN DOMAIN s.cache.phones_by_scoutnet_id
                                        ELSE {},
                         create |-> {}, assign |-> EmptyMap, update |-> {},
                         delete |-> {}, done |-> FALSE ]]

\* the comparison that triggers a phone update
phone_differs(u, m) ==
    Truthy(u.contact_mobile_phone) /\ m.phone_number # u.contact_mobile_phone

renumbered(m, u) == [m EXCEPT !.phone_number = u.contact_mobile_phone]

phones_update_req(c, users, airkey_ids) ==
    {i \in existing(DOMAIN users, airkey_ids) :
        phone_differs(users[i], c.phones_by_scoutnet_id[i])}

\* req_update: medium id -> the phone as sent
phones_update_objs(c, users, req) ==
    [id \in {c.phones_by_scoutnet_id[i].id : i \in req} |->
        LET i == CHOOSE j \in req : c.phones_by_scoutnet_id[j].id = id
        IN  renumbered(c.phones_by_scoutnet_id[i], users[i])]

phones_updated(s, users, dry, req, objs) ==
    [s EXCEPT
       !.cache.phones_by_scoutnet_id =
           [i \in DOMAIN @ |-> IF i \in req THEN renumbered(@[i], users[i]) ELSE @[i]],
       !.cache.phones_by_medium_id =
           [id \in DOMAIN @ |-> IF id \in DOMAIN objs THEN objs[id] ELSE @[id]],
       !.touched.phone_updated =
           @ \cup {s.cache.phones_by_scoutnet_id[i].person_id : i \in req},
       !.plan.update = req,
       !.phones = IF req = {} \/ dry THEN @ ELSE ApiUpdatePhones(@, objs),
       !.calls = IF req = {} \/ dry THEN @
                 ELSE Append(@, Call("sync_phones", "update_phones", DOMAIN objs))]

phones_update_with(s, users, dry, req) ==
    phones_updated(s, users, dry, req, phones_update_objs(s.cache, users, req))

\* "Update existing phones"
phones_update(s, users, dry, update_phones) ==
    IF s.error # None \/ ~update_phones THEN s
    ELSE phones_update_with(s, users, dry,
                            phones_update_req(s.cache, users, s.plan.airkey_ids))

\* the members for whom a phone is requested
phones_create_req(users, airkey_ids) ==
    {i \in to_create(DOMAIN users, airkey_ids) : Truthy(users[i].contact_mobile_phone)}

\* the numbers of req_create, in the order of the loop over created_ids
RECURSIVE numbers_of(_, _)
numbers_of(users, todo) ==
    IF todo = {} THEN << >>
    ELSE <<users[Min(todo)].contact_mobile_phone>> \o numbers_of(users, todo \ {Min(todo)})

\* the condition under which sync_phones sends the create request
sends_create(dry, req_create) == req_create # {}

\* the loop "for phone in res": req_assign as medium id -> person id
assignments(c, rph, created) ==
    [id \in {m \in created :
                /\ Has(c.phone_to_person_id, rph[m].phone_number)
                /\ c.phone_to_person_id[rph[m].phone_number] # NoId} |->
        c.phone_to_person_id[rph[id].phone_number]]

\* the loop "for m in res: self.send_registration_code(api, m.medium_id)"
RECURSIVE send_new_codes(_, _, _, _)
send_new_codes(s, users, dry, todo) ==
    IF todo = {} \/ s.error # None THEN s
    ELSE send_new_codes(send_registration_code(s, users, dry, Min(todo)).s,
                        users, dry, todo \ {Min(todo)})

\* self.phones_by_medium_id[phone.id] = phone, for the phones of req_assign
phones_noted(s, req_assign) ==
    [s EXCEPT
       !.cache.phones_by_medium_id =
           [id \in (DOMAIN @) \cup DOMAIN req_assign |->
               IF id \in DOMAIN req_assign THEN s.phones[id] ELSE @[id]],
       !.touched.assigned = @ \cup {req_assign[id] : id \in DOMAIN req_assign},
       !.plan.assign = req_assign]

\* api.assign_owner_to_medium(req_assign)
owners_assigned(s, req_assign) ==
    [s EXCEPT
       !.phones = ApiAssignOwner(@, req_assign),
       !.calls = Append(@, Call("sync_phones", "assign_owner_to_medium",
                                DOMAIN req_assign))]

phones_assign_with(s, users, dry, req_assign) ==
    IF DOMAIN req_assign = {} \/ dry THEN phones_noted(s, req_assign)
    ELSE send_new_codes(owners_assigned(phones_noted(s, req_assign), req_assign),
                        users, dry, DOMAIN req_assign)

\* after self._fetch_medium(): the assignment of the phones just created
phones_assign(s, users, dry, created) ==
    IF s.error # None THEN s
    ELSE phones_assign_with(s, users, dry, assignments(s.cache, s.phones, created))

\* res = api.create_phones(req_create)
phones_created(s, req, r) ==
    [s EXCEPT
       !.plan.create = req,
       !.phones = r.phones,
       !.ids.medium = r.last,
       !.calls = Append(@, Call("sync_phones", "create_phones",
                                (s.ids.medium + 1)..r.last))]

phones_create_with(s, users, dry, req) ==
    IF ~sends_create(dry, req) THEN [s EXCEPT !.plan.create = req]
    ELSE phones_assign(
           load_medium(
             phones_created(s, req,
                ApiCreatePhones(s.phones, s.ids.medium, numbers_of(users, req), 1)),
             users),
           users, dry, (s.ids.medium + 1)..(s.ids.medium + Cardinality(req)))

\* "Create new phones"
phones_create(s, users, dry, create_phones) ==
    IF s.error # None \/ ~create_phones THEN s
    ELSE phones_create_with(s, users, dry,
                            phones_create_req(users, s.plan.airkey_ids))

phones_deleted(s, dry, req, req_delete) ==
    [s EXCEPT
       !.touched.phone_deleted =
           @ \cup {s.cache.phones_by_scoutnet_id[i].person_id : i \in req},
       !.plan.delete = req,
       !.phones = IF req_delete = {} \/ dry THEN @ ELSE ApiDeletePhones(@, req_delete),
       !.calls = IF req_delete = {} \/ dry THEN @
                 ELSE Append(@, Call("sync_phones", "delete_phones", req_delete))]

phones_delete_with(s, dry, req) ==
    phones_deleted(s, dry, req, {s.cache.phones_by_scoutnet_id[i].id : i \in req})

\* "Delete removed phones"
phones_delete(s, users, dry, delete_phones) ==
    IF s.error # None \/ ~delete_phones THEN s
    ELSE phones_delete_with(s, dry, to_delete(DOMAIN users, s.plan.airkey_ids))

\* sync_phones: the world after the call, with the sets it computed
sync_phones_run(s0, users, dry, create_phones, update_phones, delete_phones) ==
    finish(
      phones_delete(
        phones_create(
          phones_update(
            phones_begin(load_medium(load_persons(s0, users), users),
                         <<create_phones, update_phones, delete_phones>>),
            users, dry, update_phones),
          users, dry, create_phones),
        users, dry, delete_phones))

\* ---------------------------------------------------- delete_unassigned_phones
unassigned_phones(rph) == {id \in DOMAIN rph : rph[id].person_id = NoId}

unassigned_deleted(s, dry, req) ==
    IF req = {} \/ dry THEN s
    ELSE [s EXCEPT
            !.phones = ApiDeletePhones(@, req),
            !.calls = Append(@, Call("delete_unassigned_phones", "delete_phones", req))]

delete_unassigned_phones_run(s, dry) ==
    unassigned_deleted(s, dry, unassigned_phones(s.phones))

\* ----------------------------------------------------------------- sync_auth
auth_begin(s, area_ids, create_auth) ==
    IF s.error # None
    THEN [s EXCEPT !.plan = [create_auth |-> create_auth, area_ids |-> area_ids,
                             create |-> << >>, done |-> FALSE]]
    ELSE [s EXCEPT !.plan = [create_auth |-> create_auth, area_ids |-> area_ids,
                             create |-> << >>, done |-> FALSE],
                   !.cache.phones_by_medium_id = EmptyMap]

\* the persons for whom sync_auth builds create requests
auth_candidates(c) ==
    {scoutnet_id \in DOMAIN c.persons_by_scoutnet_id :
        /\ ~Has(c.auth_by_scoutnet_id, scoutnet_id)
        /\ Has(c.phones_by_scoutnet_id, scoutnet_id)}

\* req_create as pairs <<scoutnet id, area id>>: persons by ascending id
\* (the requests are independent of one another), areas in the order given
RECURSIVE auth_requests(_, _)
auth_requests(todo, area_ids) ==
    IF todo = {} THEN << >>
    ELSE [k \in 1..Len(area_ids) |-> <<Min(todo), area_ids[k]>>]
         \o auth_requests(todo \ {Min(todo)}, area_ids)

auth_request_sent(s, scoutnet_id, area_id, medium_id) ==
    [s EXCEPT
       !.auths = ApiCreateAuthorization(@, s.ids.auth, s.phones, medium_id, area_id),
       !.ids.auth = @ + 1,
       !.calls = Append(@, Call("sync_auth", "create_authorization",
                                {<<scoutnet_id, area_id>>}))]

\* the loop "for a in req_create: api.create_or_update_...(a)"
RECURSIVE send_auth_requests(_, _, _)
send_auth_requests(s, reqs, k) ==
    IF k > Len(reqs) THEN s
    ELSE send_auth_requests(
           auth_request_sent(s, reqs[k][1], reqs[k][2],
                             s.cache.phones_by_scoutnet_id[reqs[k][1]].id),
           reqs, k + 1)

auth_created(s, dry, reqs) ==
    [(IF reqs = << >> \/ dry THEN s ELSE send_auth_requests(s, reqs, 1)) EXCEPT
       !.touched.authorized =
           @ \cup {s.cache.persons_by_scoutnet_id[reqs[k][1]].id : k \in 1..Len(reqs)},
       !.plan.create = reqs]

\* "if create_auth:"
auth_create(s, dry, area_ids, create_auth) ==
    IF s.error # None \/ ~create_auth THEN s
    ELSE auth_created(s, dry, auth_requests(auth_candidates(s.cache), area_ids))

\* sync_auth: the world after the call, with the create requests it built
sync_auth_run(s0, users, dry, area_ids, create_auth) ==
    finish(
      auth_create(
        auth_begin(load_auth(load_medium(load_persons(s0, users), users), users),
                   area_ids, create_auth),
        dry, area_ids, create_auth))

\* ------------------------------------------- send_pending_registration_codes
NoLimit == -1       \* limit=None

\* "if limit is None or limit > 0"
tries(limit) == limit = NoLimit \/ limit > 0

\* the rest of one iteration, r being what send_registration_code returned
RECURSIVE pending_loop(_, _, _, _, _, _, _)
pending_step(r, users, dry, rest, limit, sent, count) ==
    IF r.s.error # None THEN [s |-> r.s, count |-> count]
    ELSE IF sent = "unbound"
    THEN [s |-> Fail(r.s, "UnboundLocalError"), count |-> count]     \* "if sent and"
    ELSE pending_loop(r.s, users, dry, rest,
                      IF sent = "True" /\ limit # NoLimit /\ limit > 0
                      THEN limit - 1 ELSE limit,
                      sent, count)

pending_tried(r, users, dry, rest, limit, count) ==
    pending_step(r, users, dry, rest, limit,
                 IF r.sent THEN "True" ELSE "False",
                 IF r.sent THEN count + 1 ELSE count)

\* the loop over phones_by_medium_id.keys(); sent is "unbound" until assigned
pending_loop(s, users, dry, todo, limit, sent, count) ==
    IF todo = {} THEN [s |-> s, count |-> count]
    ELSE IF tries(limit)
    THEN pending_tried(send_registration_code(s, users, dry, Min(todo)),
                       users, dry, todo \ {Min(todo)}, limit, count)
    ELSE pending_step([s |-> s, sent |-> FALSE], users, dry, todo \ {Min(todo)},
                      limit, sent, count)

pending_start(s, users, dry, limit) ==
    IF s.error # None THEN [s |-> s, count |-> 0]
    ELSE pending_loop(s, users, dry, DOMAIN s.cache.phones_by_medium_id,
                      limit, "unbound", 0)

send_pending_registration_codes_run(s0, users, dry, limit) ==
    pending_start(load_medium(s0, users), users, dry, limit)

\* ---------------------------------------------- list_pending_registration_codes
\* the phones counted as pending: no device, a pairing code's valid-until set
pending_phones(c) ==
    {id \in DOMAIN c.phones_by_medium_id :
        /\ c.phones_by_medium_id[id].medium_identifier = None
        /\ c.phones_by_medium_id[id].pairing_code_valid_until # None}

pending_listed(s) ==
    [s |-> s,
     count |-> IF s.error = None THEN Cardinality(pending_phones(s.cache)) ELSE 0,
     total |-> IF s.error = None THEN Cardinality(DOMAIN s.cache.phones_by_medium_id)
               ELSE 0]

list_pending_registration_codes_run(s0, users) == pending_listed(load_medium(s0, users))

\* ------------------------------------------------------------ initial states
\* phone numbers n1, n2, ...
Number(j) == "n" \o ToString(j)
Areas == <<7, 8>>

\* The roster get_key_holders returns: at least one member.  Members are
\* 1..k; every member is called A X; member i has no number or one of the
\* first i numbers, so that numbers are shared, distinct or missing.
ScoutnetMember(number) ==
    [first_name |-> "A", last_name |-> "X", contact_mobile_phone |-> number]

Rosters ==
    UNION { { [i \in 1..k |-> ScoutnetMember(f[i])] :
                f \in { g \in [1..k -> {None} \cup {Number(j) : j \in 1..k}] :
                          \A i \in 1..k : g[i] = None \/ \E j \in 1..i : g[i] = Number(j) } } :
            k \in 1..MaxId }

\* Airkey persons: person 1, when present, carries member 1's id under any
\* of the names, or the last id as A X; the others are called A X and carry
\* no secondary identification, one that is no number, or any id.  Two
\* persons may so carry the same id, on the roster or off it.
Names == {<<"A", "X">>, <<"B", "X">>, <<"A", "Y">>}
SecondaryIds == {None, "x"} \cup {str(i) : i \in 1..MaxId}

Person(id, name, sec) ==
    [id |-> id, first_name |-> name[1], last_name |-> name[2],
     secondary_identification |-> sec]

PersonKinds(id) ==
    IF id = 1 THEN {Person(id, n, str(1)) : n \in Names}
                   \cup {Person(id, <<"A", "X">>, str(MaxId))}
    ELSE {Person(id, <<"A", "X">>, sec) : sec \in SecondaryIds}

PersonTables ==
    UNION { { f \in [D -> UNION {PersonKinds(id) : id \in D}] :
                \A id \in D : f[id] \in PersonKinds(id) } :
            D \in SUBSET (1..MaxPersons) }

\* Airkey phones: owned by an existing person or by nobody.  Phone 1 has
\* number n1 or n2 and is unregistered; the others have number n1 and are
\* unregistered, waiting for a pairing code to be used, or registered.
Phone(id, owner, number, device, code) ==
    [id |-> id, person_id |-> owner, phone_number |-> number,
     medium_identifier |-> device, pairing_code_valid_until |-> code]

PhoneKinds(id, owners) ==
    IF id = 1
    THEN {Phone(id, o, Number(j), None, None) : o \in owners, j \in 1..2}
    ELSE {Phone(id, o, Number(1), st[1], st[2]) :
             o \in owners, st \in {<<None, None>>, <<None, "future">>, <<"dev", None>>}}

PhoneTables(rp) ==
    LET owners == {NoId} \cup DOMAIN rp
    IN  UNION { { f \in [D -> UNION {PhoneKinds(id, owners) : id \in D}] :
                    \A id \in D : f[id] \in PhoneKinds(id, owners) } :
                D \in SUBSET (1..MaxPhones) }

\* Airkey authorizations 1..k: the first of an existing person or of one who
\* is gone, in any state; the others are further authorizations of the same
\* person whose deletion has been requested.
Authorization(id, owner, state, deletion_requested) ==
    [id |-> id, person_id |-> owner, medium_id |-> NoId, area_id |-> Areas[1],
     current_state |-> state, deletion_requested |-> deletion_requested]

AuthStates == {<<"ACTIVE", FALSE>>, <<"ACTIVE", TRUE>>, <<"DELETED", TRUE>>}

AuthTables ==
    UNION { { [id \in 1..k |->
                 IF id = 1 THEN Authorization(id, o, st[1], st[2])
                 ELSE Authorization(id, o, "ACTIVE", TRUE)] :
              o \in 1..MaxPersons, st \in AuthStates } :
            k \in 0..MaxAuths }

NoPlan == [done |-> FALSE]
NothingTouched ==
    [ updated |-> {}, deleted |-> {}, deauthorized |-> {}, authorized |-> {},
      assigned |-> {}, phone_updated |-> {}, phone_deleted |-> {} ]

\* a new engine, nothing called yet, beside the Airkey account as it is
NewEngine ==
    /\ cache = EmptyCache
    /\ error = None
    /\ calls = << >>
    /\ sp = NoPlan /\ sph = NoPlan /\ sa = NoPlan
    /\ touched = NothingTouched
    /\ out = << >>
    /\ snapshot = [persons |-> persons, phones |-> phones, auths |-> auths]
    /\ run = 1
    /\ ncalls = 0

\* what the sync specifications start from: a roster, an Airkey account, a new engine
InitEngine ==
    /\ scoutnet_users \in Rosters
    /\ dry_run \in BOOLEAN
    /\ persons \in PersonTables
    /\ phones \in PhoneTables(persons)
    /\ auths \in AuthTables
    /\ ids = [person |-> MaxPersons, medium |-> MaxPhones, auth |-> MaxAuths]
    /\ NewEngine

\* the engine's methods called in any order with any arguments
Init ==
    /\ InitEngine
    /\ pc = "api"
    /\ args = [commands |-> {}, delete |-> FALSE, limit |-> NoLimit, areas |-> << >>]

\* ------------------------------------------------------------------ actions
\* the world a call leaves behind
Becomes(s) ==
    /\ persons' = s.persons
    /\ phones' = s.phones
    /\ auths' = s.auths
    /\ ids' = s.ids
    /\ cache' = s.cache
    /\ error' = s.error
    /\ calls' = s.calls
    /\ touched' = s.touched
    /\ ncalls' = ncalls + 1
    /\ UNCHANGED <<scoutnet_users, dry_run, snapshot, args>>

persons_synced(s) == Becomes(s) /\ sp' = s.plan

sync_persons(create_persons, update_persons, delete_persons, deauthorize_persons) ==
    /\ error = None
    /\ persons_synced(sync_persons_run(World, scoutnet_users, dry_run, create_persons,
                                       update_persons, delete_persons,
                                       deauthorize_persons))
    /\ UNCHANGED <<sph, sa, out>>

phones_synced(s) == Becomes(s) /\ sph' = s.plan

sync_phones(create_phones, update_phones, delete_phones) ==
    /\ error = None
    /\ phones_synced(sync_phones_run(World, scoutnet_users, dry_run, create_phones,
                                     update_phones, delete_phones))
    /\ UNCHANGED <<sp, sa, out>>

delete_unassigned_phones ==
    /\ error = None
    /\ Becomes(delete_unassigned_phones_run(World, dry_run))
    /\ UNCHANGED <<sp, sph, sa, out>>

auth_synced(s) == Becomes(s) /\ sa' = s.plan

sync_auth(area_ids, create_auth) ==
    /\ error = None
    /\ auth_synced(sync_auth_run(World, scoutnet_users, dry_run, area_ids, create_auth))
    /\ UNCHANGED <<sp, sph, out>>

codes_reported(r) ==
    /\ Becomes(r.s)
    /\ out' = IF r.s.error = None
              THEN Append(out, [line |-> "codes sent", count |-> r.count])
              ELSE out

send_pending_registration_codes(limit) ==
    /\ error = None
    /\ codes_reported(send_pending_registration_codes_run(World, scoutnet_users,
                                                           dry_run, limit))
    /\ UNCHANGED <<sp, sph, sa>>

pending_reported(r) ==
    /\ Becomes(r.s)
    /\ out' = IF r.s.error = None
              THEN Append(out, [line |-> "pending registrations", count |-> r.count,
                                total |-> r.total])
              ELSE out

list_pending_registration_codes ==
    /\ error = None
    /\ pending_reported(list_pending_registration_codes_run(World, scoutnet_users))
    /\ UNCHANGED <<sp, sph, sa>>

\* ---------------------------------------------- Spec: the methods, any order
AreaLists == { SubSeq(Areas, 1, n) : n \in 0..Len(Areas) }
Limits == {NoLimit} \cup 0..1

CallSyncPersons ==
    /\ pc = "api" /\ ncalls < MaxCalls
    /\ \E c, u, d, da \in BOOLEAN : sync_persons(c, u, d, da)
    /\ UNCHANGED <<pc, run>>

CallSyncPhones ==
    /\ pc = "api" /\ ncalls < MaxCalls
    /\ \E c, u, d \in BOOLEAN : sync_phones(c, u, d)
    /\ UNCHANGED <<pc, run>>

CallDeleteUnassignedPhones ==
    /\ pc = "api" /\ ncalls < MaxCalls
    /\ delete_unassigned_phones
    /\ UNCHANGED <<pc, run>>

CallSyncAuth ==
    /\ pc = "api" /\ ncalls < MaxCalls
    /\ \E area_ids \in AreaLists, create_auth \in BOOLEAN :
          sync_auth(area_ids, create_auth)
    /\ UNCHANGED <<pc, run>>

CallSendPendingRegistrationCodes ==
    /\ pc = "api" /\ ncalls < MaxCalls
    /\ \E limit \in Limits : send_pending_registration_codes(limit)
    /\ UNCHANGED <<pc, run>>

Next ==
    \/ CallSyncPersons
    \/ CallSyncPhones
    \/ CallDeleteUnassignedPhones
    \/ CallSyncAuth
    \/ CallSendPendingRegistrationCodes

Spec == Init /\ [][Next]_vars

\* ------------------------------------------------- MainSpec: main(), "sync"
\* The process runs the sync command; when it has ended without error the
\* command is run once more, by a new process, on what Airkey then holds.
MainInit ==
    /\ InitEngine
    /\ pc = "sync_persons_1"
    /\ \E delete \in BOOLEAN, areas \in AreaLists :
          args = [commands |-> {"sync"}, delete |-> delete, limit |-> NoLimit,
                  areas |-> areas]

\* a first pass that also deletes and deauthorizes
MainSyncPersonsAll ==
    /\ pc = "sync_persons_1"
    /\ sync_persons(TRUE, TRUE, args.delete, TRUE)
    /\ pc' = "sync_phones"
    /\ run' = run

\* airkey_client.sync_persons(create_persons=True, update_persons=True)
MainSyncPersons ==
    /\ pc = "sync_persons_1"
    /\ sync_persons(TRUE, TRUE, FALSE, FALSE)
    /\ pc' = "sync_phones"
    /\ run' = run

\* airkey_client.sync_phones(create_phones=True, update_phones=True, delete_phones=args.delete)
MainSyncPhones ==
    /\ pc = "sync_phones"
    /\ sync_phones(TRUE, TRUE, args.delete)
    /\ pc' = "delete_unassigned_phones"
    /\ run' = run

\* airkey_client.delete_unassigned_phones()
MainDeleteUnassignedPhones ==
    /\ pc = "delete_unassigned_phones"
    /\ delete_unassigned_phones
    /\ pc' = "sync_persons_2"
    /\ run' = run

\* airkey_client.sync_persons(delete_persons=args.delete, deauthorize_persons=True)
MainDeletePersons ==
    /\ pc = "sync_persons_2"
    /\ sync_persons(FALSE, FALSE, args.delete, TRUE)
    /\ pc' = IF args.areas # << >> THEN "sync_auth" ELSE "done"
    /\ run' = run

\* airkey_client.sync_auth(area_ids=areas_ids): create_auth keeps its default
MainSyncAuth ==
    /\ pc = "sync_auth"
    /\ sync_auth(args.areas, FALSE)
    /\ pc' = "done"
    /\ run' = run

\* the next process: a new engine, the same roster and command line
MainAgain ==
    /\ pc = "done" /\ error = None /\ run = 1
    /\ run' = 2
    /\ pc' = "sync_persons_1"
    /\ cache' = EmptyCache
    /\ calls' = << >>
    /\ ncalls' = 0
    /\ UNCHANGED <<scoutnet_users, dry_run, persons, phones, auths, ids, error,
                   sp, sph, sa, touched, out, snapshot, args>>

MainNext ==
    \/ MainSyncPersons
    \/ MainSyncPhones
    \/ MainDeleteUnassignedPhones
    \/ MainDeletePersons
    \/ MainSyncAuth
    \/ MainAgain

MainSpec == MainInit /\ [][MainNext]_vars

\* ---------------------------- PassesSpec: the three passes, twice, one engine
\* sync_persons, sync_phones and sync_auth with every flag set and both
\* areas, then the same again on the same engine.
PassesInit ==
    /\ InitEngine
    /\ pc = "persons"
    /\ args = [commands |-> {}, delete |-> TRUE, limit |-> NoLimit, areas |-> Areas]

PassPersons ==
    /\ pc = "persons"
    /\ sync_persons(TRUE, TRUE, TRUE, TRUE)
    /\ pc' = "phones"
    /\ run' = run

PassPhones ==
    /\ pc = "phones"
    /\ sync_phones(TRUE, TRUE, TRUE)
    /\ pc' = "auth"
    /\ run' = run

PassAuth ==
    /\ pc = "auth"
    /\ sync_auth(args.areas, TRUE)
    /\ pc' = IF run = 1 THEN "again" ELSE "done"
    /\ run' = run

PassAgain ==
    /\ pc = "again" /\ error = None
    /\ pc' = "persons"
    /\ run' = 2
    /\ UNCHANGED <<scoutnet_users, dry_run, persons, phones, auths, ids, cache, error,
                   calls, sp, sph, sa, touched, out, snapshot, args, ncalls>>

PassesNext ==
    \/ PassPersons
    \/ PassPhones
    \/ PassAuth
    \/ PassAgain

PassesSpec == PassesInit /\ [][PassesNext]_vars

\* ------------------------------------ CodesSpec: main(), "sms" and "pending"
\* The registration commands on an account whose phones 1..k are owned by
\* anybody or nobody and are unregistered, waiting with a pairing code that
\* is still valid or has expired, or registered.
PairingStates ==
    {<<None, None>>, <<None, "future">>, <<None, "past">>, <<"dev", None>>}

CodePhoneTables(rp) ==
    UNION { [1..k -> {NoId} \cup DOMAIN rp] \X [1..k -> PairingStates] : k \in 0..MaxCodePhones }

CodePhones(t) ==
    [id \in DOMAIN t[1] |-> Phone(id, t[1][id], Number(1), t[2][id][1], t[2][id][2])]

CodeRosters == {[i \in 1..k |-> ScoutnetMember(None)] : k \in 1..MaxId}
CommandLists == {{"sms"}, {"pending"}, {"sms", "pending"}}

CodesInit ==
    /\ scoutnet_users \in CodeRosters
    /\ dry_run \in BOOLEAN
    /\ persons \in PersonTables
    /\ \E t \in CodePhoneTables(persons) : phones = CodePhones(t)
    /\ auths = EmptyMap
    /\ ids = [person |-> MaxPersons, medium |-> MaxCodePhones, auth |-> 0]
    /\ NewEngine
    /\ \E commands \in CommandLists, limit \in Limits :
          /\ args = [commands |-> commands, delete |-> FALSE, limit |-> limit,
                     areas |-> << >>]
          /\ pc = IF "sms" \in commands THEN "sms" ELSE "pending"

\* airkey_client.send_pending_registration_codes(limit=args.limit)
MainSms ==
    /\ pc = "sms"
    /\ send_pending_registration_codes(args.limit)
    /\ pc' = IF "pending" \in args.commands THEN "pending" ELSE "done"
    /\ run' = run

\* airkey_client.list_pending_registration_codes()
MainPending ==
    /\ pc = "pending"
    /\ list_pending_registration_codes
    /\ pc' = "done"
    /\ run' = run

CodesNext ==
    \/ MainSms
    \/ MainPending

CodesSpec == CodesInit /\ [][CodesNext]_vars

\* ---------------------------------------- StartSpec: main() from its start
\* get_key_holders: the members of the lists one of whose aliases is a
\* configured holder name, as far as they are members at all.
\* Result: [key_holders, error].
key_holders_list_ids(lists, holders) ==
    {l \in DOMAIN lists : holders \cap lists[l].aliases # {}}

key_holders_of(members, lists, list_ids) ==
    [m \in {j \in DOMAIN members : \E l \in list_ids : j \in lists[l].members} |->
        members[m]]

key_holders_checked(key_holders) ==
    [key_holders |-> key_holders,
     error |-> IF DOMAIN key_holders = {} THEN "RuntimeError" ELSE None]

\* a resolution that hands on whatever it found, also nothing
key_holders_any(members, lists, holders) ==
    [key_holders |-> key_holders_of(members, lists, key_holders_list_ids(lists, holders)),
     error |-> None]

get_key_holders(members, lists, holders) ==
    key_holders_checked(
        key_holders_of(members, lists, key_holders_list_ids(lists, holders)))

\* Scoutnet: the members, and lists 1..k with their aliases and member ids;
\* a list may name ids that are no members.
Aliases == {"keys", "staff"}
ScoutnetLists ==
    UNION { [1..k -> [aliases : (SUBSET Aliases) \ {{}}, members : SUBSET (1..MaxId)]] :
            k \in 0..MaxLists }
ScoutnetMembers == {[i \in D |-> ScoutnetMember(None)] : D \in SUBSET (1..MaxId)}

\* the process before the roster is resolved; args also holds the
\* configured holder names and what Scoutnet returns
StartInit ==
    /\ scoutnet_users = EmptyMap
    /\ dry_run \in BOOLEAN
    /\ persons \in PersonTables
    /\ phones = EmptyMap
    /\ auths = EmptyMap
    /\ ids = [person |-> MaxPersons, medium |-> 0, auth |-> 0]
    /\ NewEngine
    /\ pc = "start"
    /\ \E delete \in BOOLEAN, lists \in ScoutnetLists, members \in ScoutnetMembers :
          args = [commands |-> {"sync"}, delete |-> delete, limit |-> NoLimit,
                  areas |-> SubSeq(Areas, 1, 1), holders |-> {"keys"},
                  lists |-> lists, members |-> members]

roster_resolved(r) ==
    /\ scoutnet_users' = r.key_holders
    /\ error' = r.error
    /\ pc' = IF r.error = None THEN "sync_persons_1" ELSE "aborted"

\* key_holders = get_key_holders(scoutnet_client, key_holders_aliases)
MainGetKeyHolders ==
    /\ pc = "start"
    /\ roster_resolved(get_key_holders(args.members, args.lists, args.holders))
    /\ UNCHANGED <<dry_run, persons, phones, auths, ids, cache, calls, sp, sph, sa,
                   touched, out, snapshot, args, run, ncalls>>

StartNext ==
    \/ MainGetKeyHolders
    \/ MainNext

StartSpec == StartInit /\ [][StartNext]_vars

\* ------------------------- TwinSpec: the registration commands, dry then live
\* The commands are run in dry-run mode; then a new process runs the same
\* command line live on the account as it was before the dry run.  What the
\* live run reports follows the line "live run" in out.
TwinInit == CodesInit /\ dry_run

TwinLive ==
    /\ run = 1
    /\ pc = "done" \/ error # None
    /\ run' = 2
    /\ dry_run' = FALSE
    /\ pc' = IF "sms" \in args.commands THEN "sms" ELSE "pending"
    /\ persons' = snapshot.persons
    /\ phones' = snapshot.phones
    /\ auths' = snapshot.auths
    /\ cache' = EmptyCache
    /\ error' = None
    /\ calls' = << >>
    /\ ncalls' = 0
    /\ out' = Append(out, [line |-> "live run"])
    /\ UNCHANGED <<scoutnet_users, ids, sp, sph, sa, touched, snapshot, args>>

TwinNext ==
    \/ MainSms
    \/ MainPending
    \/ TwinLive

TwinSpec == TwinInit /\ [][TwinNext]_vars

\* ================================================================ properties
\* the remote persons there are or were (a person id is never given twice)
RemotePersons == DOMAIN persons \cup DOMAIN snapshot.persons
RemotePerson(id) == IF id \in DOMAIN persons THEN persons[id] ELSE snapshot.persons[id]

\* secondary identification absent or unparsable / holding an id
Uncorrelated(p) ==
    ~Truthy(p.secondary_identification) \/ ~IsNumeric(p.secondary_identification)
Correlated(p) == ~Uncorrelated(p)

\* holding an id that is not on the roster
OffRoster(p) ==
    Correlated(p) /\ int(p.secondary_identification) \notin DOMAIN scoutnet_users

\* the mutation calls issued so far
Issued(op) == {k \in 1..Len(calls) : calls[k].op = op}

\* ----------------------------------------------------------------------- C1
\* C1: with dry_run set, whatever methods are called with whatever flags, no
\* mutation call is issued and Airkey's persons, phones and authorizations
\* are what they were before the calls.
C1_DryRunMutatesNothing ==
    dry_run => /\ calls = << >>
               /\ persons = snapshot.persons
               /\ phones = snapshot.phones
               /\ auths = snapshot.auths

\* ----------------------------------------------------------------------- C2
\* C2: a remote person whose secondary identification is absent or
\* unparsable is in no person or phone create (assignment), update, delete
\* or deauthorize set, whatever the roster, the remote state and the flags.
C2_ForeignInNoSet ==
    \A id \in RemotePersons :
        Uncorrelated(RemotePerson(id)) =>
            id \notin touched.updated \cup touched.deleted \cup touched.deauthorized
                      \cup touched.assigned \cup touched.phone_updated
                      \cup touched.phone_deleted

\* a person without secondary identification stands beside one that a call
\* has put in its update or delete set
C2_Witness ==
    /\ \E id \in RemotePersons : RemotePerson(id).secondary_identification = None
    /\ touched.updated \cup touched.deleted # {}
    /\ error = None

C4_LoadToleratesNonNumeric ==
    (\E id \in DOMAIN persons :
        /\ Truthy(persons[id].secondary_identification)
        /\ ~IsNumeric(persons[id].secondary_identification))
    => error # "ValueError"

\* ----------------------------------------------------------------------- C5
\* the ids the remote persons of a table carry, and the person the cache
\* keeps for an id: the last listed
CorrelatedIds(rp) ==
    {int(rp[id].secondary_identification) :
        id \in {j \in DOMAIN rp : Correlated(rp[j])}}
KeptFor(rp, i) ==
    rp[Max({id \in DOMAIN rp :
               Correlated(rp[id]) /\ int(rp[id].secondary_identification) = i})]

\* C5: sync_persons with every flag set computes, for the roster L and the
\* correlated remote ids R, create = L \ R, delete = R \ L and update = the
\* ids of L \cap R whose first or last name differs; create and delete are
\* disjoint and create, update, unchanged and delete partition L \cup R.
C5_PersonSets ==
    (sp.done /\ sp.flags = <<TRUE, TRUE, TRUE, TRUE>>) =>
        LET L == DOMAIN scoutnet_users
            R == sp.airkey_ids
            unchanged == (L \cap R) \ sp.update
        IN  /\ sp.create = L \ R
            /\ sp.delete = R \ L
            /\ sp.update \subseteq L \cap R
            /\ sp.create \cap sp.delete = {}
            /\ sp.create \cup sp.update \cup unchanged \cup sp.delete = L \cup R
            /\ sp.create \cap sp.update = {} /\ sp.create \cap unchanged = {}
            /\ sp.delete \cap sp.update = {} /\ sp.delete \cap unchanged = {}
            /\ ncalls = 1 =>
                 /\ R = CorrelatedIds(snapshot.persons)
                 /\ sp.update =
                      {i \in L \cap R :
                          \/ scoutnet_users[i].first_name
                               # KeptFor(snapshot.persons, i).first_name
                          \/ scoutnet_users[i].last_name
                               # KeptFor(snapshot.persons, i).last_name}

\* a pass with every flag set had a person to create and one to update for
\* the last name alone
C5_Witness ==
    /\ sp.done /\ sp.flags = <<TRUE, TRUE, TRUE, TRUE>>
    /\ sp.create # {}
    /\ \E i \in sp.update :
          scoutnet_users[i].first_name = KeptFor(snapshot.persons, i).first_name

\* ----------------------------------------------------------------------- C6
\* C6: the three passes with every flag set, run twice in dry-run mode on
\* one engine, compute in the second run the create, update and delete sets
\* of the first, for persons, for phones and for authorizations.
C6_DryRunRepeats ==
    [][ (dry_run /\ run = 2) =>
          /\ pc = "persons" => /\ sp'.done
                               /\ sp'.create = sp.create
                               /\ sp'.update = sp.update
                               /\ sp'.delete = sp.delete
          /\ pc = "phones" => /\ sph'.done
                              /\ sph'.create = sph.create
                              /\ sph'.update = sph.update
                              /\ sph'.delete = sph.delete
          /\ pc = "auth" => /\ sa'.done
                            /\ sa'.create = sa.create ]_vars

\* the second dry run has ended, with a person to update, a phone to create
\* and an authorization to create
C6_Witness ==
    /\ dry_run /\ run = 2 /\ pc = "done"
    /\ sp.update # {} /\ sph.create # {} /\ sa.create # << >>

\* ----------------------------------------------------------------------- C7
\* C7: when a live sync with deletion enabled has ended without error, the
\* same sync run again on what Airkey then holds computes empty create and
\* delete sets for persons and for phones.
C7_Converges ==
    (run = 2 /\ ~dry_run /\ args.delete) =>
        /\ (pc = "sync_phones" /\ sp.done) => sp.create = {}
        /\ (pc = "delete_unassigned_phones" /\ sph.done) =>
              sph.create = {} /\ sph.delete = {}
        /\ (pc \in {"sync_auth", "done"} /\ sp.done) => sp.delete = {}

\* ----------------------------------------------------------------------- C8
PersonCalls == {"create_persons", "update_persons", "delete_persons"}
AuthCalls == {"create_authorization", "delete_authorization"}

\* the pass a mutation call belongs to, as C8 orders them
Pass(call) ==
    IF call.op \in PersonCalls THEN 1
    ELSE IF call.op \in AuthCalls THEN 4
    ELSE IF call.by = "delete_unassigned_phones" THEN 3
    ELSE 2

Stage(call) ==
    IF call.op = "delete_persons" \/ call.op \in AuthCalls THEN 4
    ELSE IF call.op \in PersonCalls THEN 1
    ELSE IF call.by = "delete_unassigned_phones" THEN 3
    ELSE 2

OwnsPhone(rp, rph, i) ==
    \E m \in DOMAIN rph :
        /\ rph[m].person_id \in DOMAIN rp
        /\ Correlated(rp[rph[m].person_id])
        /\ int(rp[rph[m].person_id].secondary_identification) = i
Authorized(rp, ra, i) ==
    \E a \in DOMAIN ra :
        /\ ra[a].current_state # "DELETED"
        /\ ra[a].person_id \in DOMAIN rp
        /\ Correlated(rp[ra[a].person_id])
        /\ int(rp[ra[a].person_id].secondary_identification) = i
Entitled(rp, rph, ra) ==
    {i \in DOMAIN scoutnet_users : OwnsPhone(rp, rph, i) /\ ~Authorized(rp, ra, i)}
Range(q) == {q[k] : k \in 1..Len(q)}
AuthRequestsIssued == UNION {calls[k].ids : k \in Issued("create_authorization")}

\* C9: sync_auth with create_auth, live, issues a create request for (p, a)
\* exactly when p is on the roster, has no active authorization, owns a
\* remote phone and a is a configured area; one request per such pair.
C9_AuthRequests ==
    (ncalls = 1 /\ ~dry_run /\ sa.done /\ sa.create_auth) =>
        /\ AuthRequestsIssued =
              Entitled(snapshot.persons, snapshot.phones, snapshot.auths)
              \X Range(sa.area_ids)
        /\ Cardinality(Issued("create_authorization")) =
              Cardinality(AuthRequestsIssued)

\* ---------------------------------------------------------------------- C10
\* C10: when a live run of the sync command with an area configured has
\* ended, a create request has been issued for every configured area for
\* every roster person who owns a remote phone and has no active
\* authorization.
C10_MainAuthorizes ==
    (pc = "done" /\ ~dry_run /\ error = None /\ args.areas # << >>) =>
        Entitled(persons, phones, auths) \X Range(args.areas) \subseteq AuthRequestsIssued

\* ---------------------------------------------------------------------- C11
\* the authorizations of the persons carrying id i in a table
AuthorizationsFor(rp, ra, i) ==
    {a \in DOMAIN ra :
        /\ ra[a].person_id \in DOMAIN rp
        /\ Correlated(rp[ra[a].person_id])
        /\ int(rp[ra[a].person_id].secondary_identification) = i}

\* C11: a roster person who owns a phone and all of whose authorizations are
\* deleted or have their deletion requested is a creation candidate of
\* sync_auth: create requests are built for that person.
C11_SoftDeletedIsCandidate ==
    (ncalls = 1 /\ sa.done /\ sa.create_auth /\ sa.area_ids # << >>) =>
        \A i \in DOMAIN scoutnet_users :
            ( /\ OwnsPhone(snapshot.persons, snapshot.phones, i)
              /\ \A a \in AuthorizationsFor(snapshot.persons, snapshot.auths, i) :
                    \/ snapshot.auths[a].current_state = "DELETED"
                    \/ snapshot.auths[a].deletion_requested )
            => \E k \in 1..Len(sa.create) : sa.create[k][1] = i

\* ---------------------------------------------------------------------- C12
AuthDeletionsRequested == UNION {calls[k].ids : k \in Issued("delete_authorization")}

\* the authorizations of persons whose id has left the roster that are
\* neither deleted nor already requested to be deleted
Deauthorizable(rp, ra) ==
    {a \in DOMAIN ra :
        /\ ra[a].person_id \in DOMAIN rp
        /\ OffRoster(rp[ra[a].person_id])
        /\ ra[a].current_state # "DELETED"
        /\ ~ra[a].deletion_requested}

\* C12: a live sync_persons with deauthorize_persons submits, in one call, a
\* deletion request for exactly the authorizations of remote persons whose
\* id is not on the roster that are not yet deleted or deletion-requested.
C12_DeauthorizesExactly ==
    (ncalls = 1 /\ ~dry_run /\ sp.done /\ sp.flags[4]) =>
        /\ AuthDeletionsRequested = Deauthorizable(snapshot.persons, snapshot.auths)
        /\ Cardinality(Issued("delete_authorization")) <= 1

\* ---------------------------------------------------------------------- C13
\* the phones with no device identifier and no pairing code
Eligible(rph) ==
    {id \in DOMAIN rph :
        /\ rph[id].medium_identifier = None
        /\ rph[id].pairing_code_valid_until = None}

\* every secondary identification that is present is a number
Parsable(rp) ==
    \A id \in DOMAIN rp :
        Truthy(rp[id].secondary_identification) => Correlated(rp[id])

\* the codes a call with this limit is to send among e eligible phones
CodesDue(limit, e) == IF limit = NoLimit \/ limit > e THEN e ELSE limit

\* C13: a live send_pending_registration_codes(limit) with limit >= 1 or no
\* limit generates and sends exactly min(limit, e) pairing codes, e being
\* the number of eligible phones, and reports that number.
C13_SendsUpToLimit ==
    ( /\ "sms" \in args.commands /\ pc # "sms"
      /\ ~dry_run /\ args.limit # 0 /\ Parsable(snapshot.persons) ) =>
        /\ error = None
        /\ Cardinality(Issued("generate_pairing_code_for_phone"))
             = CodesDue(args.limit, Cardinality(Eligible(snapshot.phones)))
        /\ Cardinality(Issued("send_registration_code_to_phone"))
             = CodesDue(args.limit, Cardinality(Eligible(snapshot.phones)))
        /\ Len(out) >= 1
        /\ out[1] = [line |-> "codes sent",
                     count |-> CodesDue(args.limit, Cardinality(Eligible(snapshot.phones)))]

\* ---------------------------------------------------------------------- C14
\* the phones waiting with a pairing code, and the registered ones
Pending(rph) ==
    {id \in DOMAIN rph :
        /\ rph[id].medium_identifier = None
        /\ rph[id].pairing_code_valid_until # None}
Registered(rph) == {id \in DOMAIN rph : rph[id].medium_identifier # None}
CodesIssued ==
    UNION {calls[k].ids : k \in Issued("generate_pairing_code_for_phone")
                               \cup Issued("send_registration_code_to_phone")}

\* C14: a phone with a pairing code pending and no device identifier, and a
\* registered phone, is never sent a code by send_pending_registration_codes
\* whatever the limit; list_pending_registration_codes counts the phones with
\* a pairing code pending and no others.
C14_PendingSkippedAndCounted ==
    /\ CodesIssued \cap (Pending(snapshot.phones) \cup Registered(snapshot.phones)) = {}
    /\ (pc = "done" /\ "pending" \in args.commands /\ error = None) =>
          /\ out # << >>
          /\ out[Len(out)].line = "pending registrations"
          /\ out[Len(out)].count = Cardinality(Pending(phones))

\* a live sms and pending run has sent a code to one phone, passed over one
\* that was waiting with a code, and counted both
C14_Witness ==
    /\ pc = "done" /\ args.commands = {"sms", "pending"} /\ error = None
    /\ CodesIssued # {}
    /\ Pending(snapshot.phones) # {}
    /\ out[Len(out)].count = 2

\* ---------------------------------------------------------------------- C15
\* unregistered phones whose pairing code has expired / is still valid
Expired(rph) ==
    {id \in DOMAIN rph :
        rph[id].medium_identifier = None /\ rph[id].pairing_code_valid_until = "past"}
Unexpired(rph) ==
    {id \in DOMAIN rph :
        rph[id].medium_identifier = None /\ rph[id].pairing_code_valid_until = "future"}

\* the unregistered phones of a table all belong to persons of the roster
MemberOwned(rp, rph) ==
    \A id \in DOMAIN rph :
        rph[id].medium_identifier = None =>
            /\ rph[id].person_id \in DOMAIN rp
            /\ Correlated(rp[rph[id].person_id])
            /\ ~OffRoster(rp[rph[id].person_id])

\* C15: an unregistered phone whose pairing code has expired is sent a new
\* code by a live send_pending_registration_codes without limit, and
\* list_pending_registration_codes reports only the phones whose pairing
\* code is still valid.
C15_ExpiredCodeRenewed ==
    /\ ( /\ "sms" \in args.commands /\ pc # "sms" /\ ~dry_run
         /\ args.limit = NoLimit
         /\ Parsable(snapshot.persons)
         /\ MemberOwned(snapshot.persons, snapshot.phones) )
       => Expired(snapshot.phones) \subseteq CodesIssued
    /\ (pc = "done" /\ args.commands = {"pending"} /\ error = None) =>
          /\ out # << >>
          /\ out[Len(out)].count = Cardinality(Unexpired(phones))

\* ---------------------------------------------------------------------- C16
\* the members of the roster who are on a list with a configured alias
Resolved ==
    {m \in DOMAIN args.members :
        \E l \in DOMAIN args.lists :
            /\ args.lists[l].aliases \cap args.holders # {}
            /\ m \in args.lists[l].members}

\* C16: when no member is on a list whose aliases meet the configured
\* holder names, get_key_holders raises and the run ends before any engine
\* method has run: no Airkey fetch and no mutation call has been made.
C16_NoHoldersAborts ==
    (pc # "start" /\ Resolved = {}) =>
        /\ error = "RuntimeError"
        /\ pc = "aborted"
        /\ ncalls = 0
        /\ calls = << >>
        /\ cache = EmptyCache
        /\ scoutnet_users = EmptyMap

\* the run has been aborted although the lists with the configured alias
\* name ids: none of them is a member
C16_Witness ==
    /\ pc = "aborted"
    /\ \E l \in DOMAIN args.lists :
          "keys" \in args.lists[l].aliases /\ args.lists[l].members # {}
    /\ DOMAIN snapshot.persons # {}

\* ---------------------------------------------------------------------- C17
\* what the dry run reported and what the live run reported
LiveMark == CHOOSE k \in 1..Len(out) : out[k].line = "live run"
DryReports == SubSeq(out, 1, LiveMark - 1)
LiveReports == SubSeq(out, LiveMark + 1, Len(out))

\* C17: over the same roster and the same Airkey account a dry run and a
\* live run of the same commands report the same lines with the same
\* counts, the number of codes sent among them.
C17_DryReportsAsLive ==
    (run = 2 /\ (pc = "done" \/ error # None)) => DryReports = LiveReports


\* ---------------------------------- LoadSpec: the cache loads, one at a time
\* The three loads called in any order on one engine while Airkey stays as
\* it is.  calls records the list requests a load sends.
MaxLoads == 2

ListRequest(by, op) == Call(by, op, {})

\* the list requests of _fetch_persons, of _fetch_medium and of _fetch_auth:
\* the loop over the fetched records runs after the listing, and the second
\* listing is not reached when the person load has raised
persons_requests == <<ListRequest("_fetch_persons", "get_persons")>>

medium_requests(c, users, rp) ==
    IF fetch_persons(c, users, rp).error # None THEN persons_requests
    ELSE Append(persons_requests, ListRequest("_fetch_medium", "get_phones"))

auth_requests_listed(c, users, rp) ==
    IF fetch_persons(c, users, rp).error # None THEN persons_requests
    ELSE Append(persons_requests, ListRequest("_fetch_auth", "get_authorizations"))

LoadInit ==
    /\ InitEngine
    /\ pc = "load"
    /\ args = [commands |-> {}, delete |-> FALSE, limit |-> NoLimit, areas |-> << >>]

loaded(r, requests) ==
    /\ cache' = r.cache
    /\ error' = r.error
    /\ calls' = calls \o requests
    /\ ncalls' = ncalls + 1
    /\ UNCHANGED <<scoutnet_users, dry_run, persons, phones, auths, ids, sp, sph, sa,
                   touched, out, snapshot, pc, args, run>>

FetchPersons ==
    /\ pc = "load" /\ error = None /\ ncalls < MaxLoads
    /\ loaded(fetch_persons(cache, scoutnet_users, persons), persons_requests)

FetchMedium ==
    /\ pc = "load" /\ error = None /\ ncalls < MaxLoads
    /\ loaded(fetch_medium(cache, scoutnet_users, persons, phones),
              medium_requests(cache, scoutnet_users, persons))

FetchAuth ==
    /\ pc = "load" /\ error = None /\ ncalls < MaxLoads
    /\ loaded(fetch_auth(cache, scoutnet_users, persons, auths),
              auth_requests_listed(cache, scoutnet_users, persons))

LoadNext ==
    \/ FetchPersons
    \/ FetchMedium
    \/ FetchAuth

LoadSpec == LoadInit /\ [][LoadNext]_vars

\* ---------------------------------------------------------------------- C18
\* the list requests sent so far for one kind of record
Listed(log, op) == {k \in 1..Len(log) : log[k].op = op}
ListOps == {"get_persons", "get_phones", "get_authorizations"}

\* the caches a listing fills
CachesOf(op) ==
    IF op = "get_persons"
    THEN {"person_id_to_scoutnet_id", "persons_by_person_id",
          "persons_by_scoutnet_id", "phone_to_person_id"}
    ELSE IF op = "get_phones" THEN {"phones_by_medium_id", "phones_by_scoutnet_id"}
    ELSE {"auth_by_auth_id", "auth_by_scoutnet_id"}

\* C18: once a kind of record has been listed, a later load sends no list
\* request for that kind again and leaves the caches of that kind as they are.
C18_LoadedOnce ==
    [][ \A op \in ListOps :
          Listed(calls, op) # {} =>
             /\ Listed(calls', op) = Listed(calls, op)
             /\ \A f \in CachesOf(op) : cache'[f] = cache[f] ]_vars


\* ------------------------ CleanupSpec: main's sync with up to two phones
\* The sync flow of main() on an account whose phones are all unregistered
\* and may belong to one person; no authorizations.
UnregisteredPhoneTables(rp) ==
    {t \in CodePhoneTables(rp) : \A id \in DOMAIN t[2] : t[2][id] = <<None, None>>}

CleanupInit ==
    /\ scoutnet_users \in Rosters
    /\ dry_run \in BOOLEAN
    /\ persons \in PersonTables
    /\ \E t \in UnregisteredPhoneTables(persons) : phones = CodePhones(t)
    /\ auths = EmptyMap
    /\ ids = [person |-> MaxPersons, medium |-> MaxCodePhones, auth |-> 0]
    /\ NewEngine
    /\ pc = "sync_persons_1"
    /\ \E delete \in BOOLEAN, areas \in AreaLists :
          args = [commands |-> {"sync"}, delete |-> delete, limit |-> NoLimit,
                  areas |-> areas]

CleanupSpec == CleanupInit /\ [][MainNext]_vars

CleanupSparesOwned ==
    [][ pc = "delete_unassigned_phones" =>
          \A id \in DOMAIN phones \ DOMAIN phones' : phones[id].person_id = NoId ]_vars


\* ---------------------------------------------------------------------- C20
\* the roster persons sync_phones creates a phone for and has a remote
\* person to give it to
Phoneless(i) ==
    /\ Truthy(scoutnet_users[i].contact_mobile_phone)
    /\ i \in CorrelatedIds(snapshot.persons)
    /\ ~OwnsPhone(snapshot.persons, snapshot.phones, i)

\* C20: when a live sync_phones has sent its create request, every roster
\* person with a contact number and a correlated remote person, who owned no
\* phone before, owns a phone afterwards.
C20_CreatedPhonesAssigned ==
    (~dry_run /\ Issued("create_phones") # {}) =>
        \A i \in DOMAIN scoutnet_users :
            Phoneless(i) => OwnsPhone(persons, phones, i)

\* the same for rosters whose contact numbers are all different
DistinctNumbers ==
    \A i, j \in DOMAIN scoutnet_users :
        (i # j /\ Truthy(scoutnet_users[i].contact_mobile_phone)) =>
            scoutnet_users[i].contact_mobile_phone # scoutnet_users[j].contact_mobile_phone
CreatedPhonesAssignedDistinct ==
    DistinctNumbers => C20_CreatedPhonesAssigned


\* ---------------------------------------------------------------------- C21
\* C21: sync_persons ends with a load of the persons; when it has returned,
\* the person index by remote id holds exactly the persons Airkey holds and
\* the index by roster id exactly the ids they carry.
C21_CacheIsSnapshot ==
    (sp.done /\ error = None) =>
        /\ DOMAIN cache.persons_by_person_id = DOMAIN persons
        /\ DOMAIN cache.persons_by_scoutnet_id = CorrelatedIds(persons)


\* ---------------------------------------------------------------------- C22
\* C22: send_pending_registration_codes returns without an error for every
\* limit and every content of the phone cache, the persons' secondary
\* identifications being numbers where present.
C22_SendReturns ==
    ("sms" \in args.commands /\ pc # "sms" /\ Parsable(snapshot.persons)) =>
        error = None

\* the same where every unregistered phone belongs to a roster person
SendReturnsMemberOwned ==
    MemberOwned(snapshot.persons, snapshot.phones) => C22_SendReturns

\* the same for the limits other than 0
SendReturnsLimited ==
    (args.limit # 0 /\ MemberOwned(snapshot.persons, snapshot.phones)) => C22_SendReturns


\* ---------------------------------------------------------------------- C23
\* the phones a live sync_phones has assigned to an owner
NewlyAssigned ==
    UNION {calls[k].ids : k \in Issued("assign_owner_to_medium")}

\* C23: when a live sync_phones has assigned the phones it created, it has
\* generated and sent a pairing code for each of them and returns without an
\* error.
C23_NewPhonesGetCodes ==
    (~dry_run /\ Issued("assign_owner_to_medium") # {}) =>
        /\ error = None
        /\ \A m \in NewlyAssigned :
              /\ \E k \in Issued("generate_pairing_code_for_phone") : m \in calls[k].ids
              /\ \E k \in Issued("send_registration_code_to_phone") : m \in calls[k].ids

\* no pairing code call follows an assignment at all
NoCodeAfterAssignment ==
    Issued("assign_owner_to_medium") # {} =>
        /\ error = "AttributeError"
        /\ Issued("generate_pairing_code_for_phone") = {}

====
